---------------------------- MODULE Spec2Model ----------------------------
(***************************************************************************)
(* Model of cmd/telegraf/telegraf-win.go: the Windows service entry point  *)
(* of telegraf.  main() parses the flags, runs one administrative service  *)
(* command or hands over to start(), the reload loop that resolves the     *)
(* filters, answers the informational requests, loads and validates the    *)
(* configuration and launches the agent.                                   *)
(*                                                                         *)
(* Strings that the code inspects character by character (the four filter  *)
(* flags) are sequences of one-character strings; every other string flag  *)
(* is only compared with "" and is a TLA+ string.                          *)
(* The collaborators (winsvc, config, agent, os) are outside the file:     *)
(* each call is a step whose result is chosen nondeterministically.        *)
(***************************************************************************)
EXTENDS Naturals, Integers, Sequences, FiniteSets, TLC

\* ------------------------------------------------------------------ bounds
\* longest raw filter string drawn in SpecFilter
MaxLen == 3
\* most flags given on one command line
MaxArgs == 3
\* most plugins of one kind that one file or directory load adds
MaxPlugins == 1
\* most stop requests the service manager delivers
MaxStops == 1

\* ----------------------------------------------------------------- strings
\* the characters of the raw filter strings: two letters, the separator
\* and one white-space character
Chars == {"c", "m", ":", " "}

\* strings of at most n characters
RECURSIVE StrUpTo(_)
StrUpTo(n) ==
    IF n = 0 THEN {<<>>}
    ELSE LET shorter == StrUpTo(n - 1)
         IN  shorter \cup {Append(s, ch) : s \in shorter, ch \in Chars}

IsSpace(ch) == ch = " "

RECURSIVE TrimLeft(_)
TrimLeft(s) ==
    IF s # <<>> /\ IsSpace(Head(s)) THEN TrimLeft(Tail(s)) ELSE s

RECURSIVE TrimRight(_)
TrimRight(s) ==
    IF s # <<>> /\ IsSpace(s[Len(s)])
    THEN TrimRight(SubSeq(s, 1, Len(s) - 1))
    ELSE s

\* strings.TrimSpace: leading and trailing white space removed
TrimSpace(s) == TrimRight(TrimLeft(s))

\* strings.Index for a one-character separator; 0 when absent (Go: -1)
RECURSIVE IndexFrom(_, _, _)
IndexFrom(s, sep, i) ==
    IF i > Len(s) THEN 0
    ELSE IF s[i] = sep THEN i
    ELSE IndexFrom(s, sep, i + 1)

Index(s, sep) == IndexFrom(s, sep, 1)

\* strings.Split(s, sep): cut at every separator, empty pieces kept
RECURSIVE Split(_, _)
Split(s, sep) ==
    LET m == Index(s, sep)
    IN  IF m = 0 THEN <<s>>
        ELSE <<SubSeq(s, 1, m - 1)>> \o Split(SubSeq(s, m + 1, Len(s)), sep)

\* a nil []string
NilSlice == <<>>

\* ParseFilter without the ":" added at each end
ParseFilter_NoFrame(raw) == Split(TrimSpace(raw), ":")

\* the two statements under each filter test:
\*   inputFilter := strings.TrimSpace(raw)
\*   inputFilters = strings.Split(":"+inputFilter+":", ":")
ParseFilter(raw) == Split(<<":">> \o TrimSpace(raw) \o <<":">>, ":")

\* ResolveFilter testing each raw value for emptiness after trimming it
ResolveFilter_TrimFirst(legacy, current) ==
    LET afterLegacy  == IF TrimSpace(legacy) # <<>>
                        THEN Split(<<":">> \o TrimSpace(legacy) \o <<":">>, ":")
                        ELSE <<>>
        afterCurrent == IF TrimSpace(current) # <<>>
                        THEN Split(<<":">> \o TrimSpace(current) \o <<":">>, ":")
                        ELSE afterLegacy
    IN  afterCurrent

\* var filters []string; if legacy != "" {...}; if current != "" {...}
ResolveFilter(legacy, current) ==
    LET afterLegacy  == IF legacy # <<>> THEN ParseFilter(legacy) ELSE NilSlice
        afterCurrent == IF current # <<>> THEN ParseFilter(current) ELSE afterLegacy
    IN  afterCurrent

\* ------------------------------------------------------------------- flags
\* the flag variables, by the name of the Go variable that holds each
BoolFlags == {"fDebug", "fQuiet", "fTest", "fVersion", "fSampleConfig",
              "fServiceInstall", "fServiceUninstall", "fServiceStart",
              "fServiceStop"}

FilterFlags == {"fInputFilters", "fOutputFilters",
                "fInputFiltersLegacy", "fOutputFiltersLegacy"}

PathFlags == {"fConfig", "fConfigDirectory", "fConfigDirectoryLegacy",
              "fPidfile", "fUsage", "fServiceName", "fServiceDesc"}

FlagVars == BoolFlags \cup FilterFlags \cup PathFlags

\* the default each flag.Bool / flag.String declaration gives
FlagDefault(f) ==
    IF f \in BoolFlags THEN FALSE
    ELSE IF f \in FilterFlags THEN <<>>
    ELSE IF f = "fServiceName" THEN "telegraf-winsvc"
    ELSE IF f = "fServiceDesc" THEN "Telegraf windows service"
    ELSE ""

\* the value a path-like flag carries when it is given on the command line
PathArg(f) ==
    CASE f = "fConfig"                -> "telegraf.conf"
      [] f = "fConfigDirectory"       -> "conf.d"
      [] f = "fConfigDirectoryLegacy" -> "legacy.d"
      [] f = "fPidfile"               -> "telegraf.pid"
      [] f = "fUsage"                 -> "mysql"
      [] f = "fServiceName"           -> "svc"
      [] f = "fServiceDesc"           -> "desc"

\* the raw values a filter flag carries when it is given (Spec)
FilterArgs == {<<"c">>, <<" ">>}

\* the sets of at most n flags
RECURSIVE SubsetsUpTo(_, _)
SubsetsUpTo(S, n) ==
    IF n = 0 THEN {{}}
    ELSE LET smaller == SubsetsUpTo(S, n - 1)
         IN  smaller \cup {g \cup {f} : g \in smaller, f \in S}

\* the command lines: which flags are given
ArgSets == SubsetsUpTo(FlagVars, MaxArgs)

\* the flag variables after flag.Parse of a command line giving the flags
\* `given`, the filter flags among them with the raw values fv
Parsed(given, fv) ==
    [f \in FlagVars |->
        IF f \notin given THEN FlagDefault(f)
        ELSE IF f \in BoolFlags THEN TRUE
        ELSE IF f \in FilterFlags THEN fv[f]
        ELSE PathArg(f)]

\* ------------------------------------------------------------------- state
VARIABLES
    pc,             \* the statement the process is at
    flags,          \* the package-level flag variables
    nflag,          \* flag.NFlag(): how many flags the command line set
    via,            \* how start() was entered: "none", "direct", "service"
    reload,         \* the buffered channel of start(), capacity 1
    cycles,         \* how many times the loop body was entered
    inputFilters,   \* var inputFilters []string
    outputFilters,  \* var outputFilters []string
    c,              \* the *config.Config of the cycle
    ag,             \* the *agent.Agent of the cycle
    calls,          \* the collaborator calls made so far, in order, each
                    \* <<function, argument, result>>
    out,            \* what was printed to standard output, in order
    logged,         \* what the main thread wrote with the log package
    fatal,          \* the message of the log.Fatal that halted the process
    stops,          \* how many times stop() has run
    starts          \* how many times start() has been entered

vars == <<pc, flags, nflag, via, reload, cycles, inputFilters, outputFilters,
          c, ag, calls, out, logged, fatal, stops, starts>>

\* a nil *config.Config and a nil *agent.Agent
NoConfig == [made |-> FALSE, loaded |-> FALSE, Outputs |-> 0, Inputs |-> 0,
             InputFilters |-> NilSlice, OutputFilters |-> NilSlice]

NoAgent == [made |-> FALSE, Debug |-> FALSE, Quiet |-> FALSE,
            connected |-> FALSE]

\* capacity of make(chan bool, 1)
ReloadCap == 1

\* the process has ended: main returned or os.Exit(0), or log.Fatal
Terminal == {"exited", "halted"}

\* the state when main() is entered: the flag variables hold their defaults
Init ==
    /\ pc = "main"
    /\ flags = [f \in FlagVars |-> FlagDefault(f)]
    /\ nflag = 0
    /\ via = "none"
    /\ reload = <<>>
    /\ cycles = 0
    /\ inputFilters = NilSlice
    /\ outputFilters = NilSlice
    /\ c = NoConfig
    /\ ag = NoAgent
    /\ calls = <<>>
    /\ out = <<>>
    /\ logged = <<>>
    /\ fatal = <<>>
    /\ stops = 0
    /\ starts = 0

\* ------------------------------------------------------------------ main()
startVars == <<reload, cycles, inputFilters, outputFilters, c, ag>>

\* flag.Usage = usageExit; flag.Parse(); if flag.NFlag() == 0 { usageExit() }
MainWith(guarded) ==
    /\ pc = "main"
    /\ \E given \in ArgSets :
         \E fv \in [given \cap FilterFlags -> FilterArgs] :
            /\ flags' = Parsed(given, fv)
            /\ nflag' = Cardinality(given)
            /\ IF guarded /\ Cardinality(given) = 0
               THEN /\ out' = Append(out, "usage")
                    /\ pc' = "exited"
               ELSE /\ out' = out
                    /\ pc' = "install"
    /\ UNCHANGED <<via, calls, logged, fatal, stops, starts>>
    /\ UNCHANGED startVars

\* main without the flag.NFlag() == 0 test of lines 110-112
Main_NoUsageExit == MainWith(FALSE)

Main == MainWith(TRUE)

\* how a call that returns an error value ended
Result(err) == IF err THEN "err" ELSE "ok"

\* one administrative command: if its flag is set, the winsvc call is made;
\* an error is fatal, success prints Done and returns from main
AdminCommandThen(at, flag, call, failure, next, done) ==
    /\ pc = at
    /\ IF flags[flag]
       THEN \E err \in BOOLEAN :
              /\ calls' = Append(calls, <<call, flags["fServiceName"],
                                          Result(err)>>)
              /\ IF err
                 THEN /\ fatal' = <<failure>>
                      /\ pc' = "halted"
                      /\ out' = out
                 ELSE /\ out' = Append(out, "Done")
                      /\ pc' = done
                      /\ fatal' = fatal
       ELSE /\ pc' = next
            /\ UNCHANGED <<calls, out, fatal>>
    /\ UNCHANGED <<flags, nflag, via, logged, stops, starts>>
    /\ UNCHANGED startVars

\* ... fmt.Printf("Done\n"); return
AdminCommand(at, flag, call, failure, next) ==
    AdminCommandThen(at, flag, call, failure, next, "exited")

ServiceInstall ==
    AdminCommand("install", "fServiceInstall", "InstallService",
                 "installService", "remove")

\* -service-remove without the return after Done
ServiceRemove_FallsThrough ==
    AdminCommandThen("remove", "fServiceUninstall", "RemoveService",
                     "removeService", "svcstart", "svcstart")

ServiceRemove ==
    AdminCommand("remove", "fServiceUninstall", "RemoveService",
                 "removeService", "svcstart")

ServiceStart ==
    AdminCommand("svcstart", "fServiceStart", "StartService",
                 "startService", "svcstop")

\* -service-stop without the return after Done
ServiceStop_FallsThrough ==
    AdminCommandThen("svcstop", "fServiceStop", "StopService",
                     "stopService", "mode", "mode")

ServiceStop ==
    AdminCommand("svcstop", "fServiceStop", "StopService",
                 "stopService", "mode")

\* if !winsvc.InServiceMode() { ... RunAsService ... return }; start()
ServiceMode ==
    /\ pc = "mode"
    /\ \E inServiceMode \in BOOLEAN :
         IF ~inServiceMode
         THEN /\ logged' = Append(logged, "main: runService")
              /\ calls' = Append(calls, <<"InServiceMode", "", "false">>)
              /\ pc' = "RunAsService"
              /\ via' = via
         ELSE /\ calls' = Append(calls, <<"InServiceMode", "", "true">>)
              /\ via' = "direct"
              /\ pc' = "start"
              /\ logged' = logged
    /\ UNCHANGED <<flags, nflag, out, fatal, stops, starts>>
    /\ UNCHANGED startVars

\* winsvc.RunAsService(name, start, stop, false): the service manager either
\* refuses (the call returns an error before any callback runs) or activates
\* the service and runs the start callback
RunAsService ==
    /\ pc = "RunAsService"
    /\ \E activated \in BOOLEAN :
         IF activated
         THEN /\ calls' = Append(calls, <<"RunAsService",
                                          flags["fServiceName"], "start">>)
              /\ via' = "service"
              /\ pc' = "start"
              /\ fatal' = fatal
         ELSE /\ calls' = Append(calls, <<"RunAsService",
                                          flags["fServiceName"], "err">>)
              /\ fatal' = <<"svc.Run">>
              /\ pc' = "halted"
              /\ via' = via
    /\ UNCHANGED <<flags, nflag, out, logged, stops, starts>>
    /\ UNCHANGED startVars

\* start() has returned.  Called from main: main returns.  Called by the
\* service manager: RunAsService returns, nil or an error (fatal).
StartReturnedWith(returns) ==
    /\ pc = "returned"
    /\ IF via = "direct"
       THEN /\ pc' = "exited"
            /\ UNCHANGED <<fatal, via>>
       ELSE \E err \in BOOLEAN :
              IF err
              THEN /\ fatal' = <<"svc.Run">>
                   /\ pc' = "halted"
                   /\ via' = via
              ELSE IF returns
                   THEN /\ pc' = "exited"
                        /\ UNCHANGED <<fatal, via>>
                   ELSE /\ pc' = "start"
                        /\ via' = "direct"
                        /\ fatal' = fatal
    /\ UNCHANGED <<flags, nflag, calls, out, logged, stops, starts>>
    /\ UNCHANGED startVars

\* main without the return of line 156: after RunAsService it goes on to
\* the direct call of start()
StartReturned_FallsThrough == StartReturnedWith(FALSE)

StartReturned == StartReturnedWith(TRUE)

\* stop(): log.Printf("Hard Shutdown"); run by the service manager's thread
\* while the service is active
\* a stop() that asks the loop of start() for another cycle
Stop_Reloads ==
    /\ via = "service"
    /\ pc \notin Terminal
    /\ stops < MaxStops
    /\ Len(reload) < ReloadCap
    /\ reload' = Append(reload, TRUE)
    /\ stops' = stops + 1
    /\ UNCHANGED <<pc, flags, nflag, via, calls, out, logged, fatal, starts>>
    /\ UNCHANGED <<cycles, inputFilters, outputFilters, c, ag>>

Stop ==
    /\ via = "service"
    /\ pc \notin Terminal
    /\ stops < MaxStops
    /\ stops' = stops + 1
    /\ UNCHANGED <<pc, flags, nflag, via, calls, out, logged, fatal, starts>>
    /\ UNCHANGED startVars

\* ----------------------------------------------------------------- start()
\* most loop iterations explored (the code itself sets no limit)
MaxCycles == 3

mainVars == <<flags, nflag, via, stops, starts>>

\* start() returns to its caller
Return == pc' = "returned"

\* log.Fatal, log.Fatalf: the message is written and the process halts
Fatal(msg) == /\ fatal' = msg
              /\ pc' = "halted"

\* reload := make(chan bool, 1); reload <- true
Start ==
    /\ pc = "start"
    /\ Len(reload) < ReloadCap
    /\ reload' = Append(reload, TRUE)
    /\ starts' = starts + 1
    /\ pc' = "for"
    /\ UNCHANGED <<cycles, inputFilters, outputFilters, c, ag>>
    /\ UNCHANGED <<calls, out, logged, fatal>>
    /\ UNCHANGED <<flags, nflag, via, stops>>

\* for <-reload { : the receive waits for a value; false ends the loop
LoopCheckWith(heeds, takes) ==
    /\ pc = "for"
    /\ reload # <<>>
    /\ reload' = IF takes THEN Tail(reload) ELSE reload
    /\ IF Head(reload) \/ ~heeds THEN pc' = "body" ELSE Return
    /\ UNCHANGED <<cycles, inputFilters, outputFilters, c, ag>>
    /\ UNCHANGED <<calls, out, logged, fatal>>
    /\ UNCHANGED mainVars

\* for { <-reload ... }: the received value does not decide
LoopCheck_AnyToken == LoopCheckWith(FALSE, TRUE)

\* the loop test reads the token and leaves it in the channel
LoopCheck_Peek == LoopCheckWith(TRUE, FALSE)

\* for <-reload { ... }
LoopCheck == LoopCheckWith(TRUE, TRUE)

\* the head of the loop body, sending `token` on the channel:
\*   reload <- token; flag.Usage = usageExit; flag.Parse()
\*   if flag.NFlag() == 0 { usageExit() }
\* and the block-scoped variables of the iteration are fresh
LoopBodySending(token) ==
    /\ pc = "body"
    /\ cycles < MaxCycles
    /\ Len(reload) < ReloadCap
    /\ reload' = Append(reload, token)
    /\ cycles' = cycles + 1
    /\ inputFilters' = NilSlice
    /\ outputFilters' = NilSlice
    /\ c' = NoConfig
    /\ ag' = NoAgent
    /\ IF nflag = 0
       THEN /\ out' = Append(out, "usage")
            /\ pc' = "exited"
       ELSE /\ out' = out
            /\ pc' = "filters"
    /\ UNCHANGED <<calls, logged, fatal>>
    /\ UNCHANGED mainVars

LoopBody_Rearm == LoopBodySending(TRUE)

LoopBody == LoopBodySending(FALSE)

\* the input and the output filter, each from its legacy and current flag
ResolveFilters ==
    /\ pc = "filters"
    /\ inputFilters' = ResolveFilter(flags["fInputFiltersLegacy"],
                                     flags["fInputFilters"])
    /\ outputFilters' = ResolveFilter(flags["fOutputFiltersLegacy"],
                                      flags["fOutputFilters"])
    /\ pc' = "version"
    /\ UNCHANGED <<reload, cycles, c, ag>>
    /\ UNCHANGED <<calls, out, logged, fatal>>
    /\ UNCHANGED mainVars

\* if *fVersion { fmt.Println("Telegraf - Version " + Version); return },
\* going to `after` once the version is printed
CheckVersionThen(after) ==
    /\ pc = "version"
    /\ IF flags["fVersion"]
       THEN /\ out' = Append(out, "Telegraf - Version")
            /\ pc' = after
       ELSE /\ out' = out
            /\ pc' = "sample"
    /\ UNCHANGED startVars
    /\ UNCHANGED <<calls, logged, fatal>>
    /\ UNCHANGED mainVars

CheckVersion_NoReturn == CheckVersionThen("sample")

CheckVersion == CheckVersionThen("returned")

\* if *fSampleConfig { config.PrintSampleConfig(...); return }, going to
\* `after` once the sample configuration is printed
CheckSampleConfigThen(after) ==
    /\ pc = "sample"
    /\ IF flags["fSampleConfig"]
       THEN /\ calls' = Append(calls, <<"PrintSampleConfig", "", "ok">>)
            /\ out' = Append(out, "sample config")
            /\ pc' = after
       ELSE /\ pc' = "usage"
            /\ UNCHANGED <<calls, out>>
    /\ UNCHANGED startVars
    /\ UNCHANGED <<logged, fatal>>
    /\ UNCHANGED mainVars

CheckSampleConfig_NoReturn == CheckSampleConfigThen("usage")

CheckSampleConfig == CheckSampleConfigThen("returned")

\* if *fUsage != "" { input lookup; if it fails and `fallback`, the output
\* lookup; on failure log.Fatalf("%s and %s", err, err2); return }
CheckUsageWith(fallback) ==
    /\ pc = "usage"
    /\ IF flags["fUsage"] # ""
       THEN \E err \in BOOLEAN, err2 \in BOOLEAN :
              LET input  == <<"PrintInputConfig", flags["fUsage"], Result(err)>>
                  output == <<"PrintOutputConfig", flags["fUsage"], Result(err2)>>
              IN  IF ~err
                  THEN /\ ~err2
                       /\ calls' = Append(calls, input)
                       /\ out' = Append(out, "input usage")
                       /\ fatal' = fatal
                       /\ Return
                  ELSE IF ~fallback
                  THEN /\ ~err2
                       /\ calls' = Append(calls, input)
                       /\ Fatal(<<"input lookup failed">>)
                       /\ out' = out
                  ELSE /\ calls' = Append(Append(calls, input), output)
                       /\ IF err2
                          THEN /\ Fatal(<<"input lookup failed",
                                          "output lookup failed">>)
                               /\ out' = out
                          ELSE /\ out' = Append(out, "output usage")
                               /\ fatal' = fatal
                               /\ Return
       ELSE /\ pc' = "config"
            /\ UNCHANGED <<calls, out, fatal>>
    /\ UNCHANGED startVars
    /\ UNCHANGED logged
    /\ UNCHANGED mainVars

CheckUsage_NoFallback == CheckUsageWith(FALSE)

CheckUsage == CheckUsageWith(TRUE)

\* what one LoadConfig or LoadDirectory call can add to the configuration
Loads == [outputs : 0..MaxPlugins, inputs : 0..MaxPlugins]

\* if *fConfig != "" { c = config.NewConfig(); c.OutputFilters = ...;
\*   c.InputFilters = ...; err = c.LoadConfig(*fConfig); fatal on error }
\* else { fmt.Println("Usage: Telegraf"); flag.PrintDefaults(); return }
LoadPrimary ==
    /\ pc = "config"
    /\ IF flags["fConfig"] # ""
       THEN /\ out' = out
            /\ \E err \in BOOLEAN, add \in Loads :
                 LET fresh == [NoConfig EXCEPT !.made = TRUE,
                                               !.OutputFilters = outputFilters,
                                               !.InputFilters = inputFilters]
                 IN  /\ calls' = calls \o
                          << <<"NewConfig", "", "ok">>,
                             <<"LoadConfig", flags["fConfig"], Result(err)>> >>
                     /\ IF err
                        THEN /\ add = [outputs |-> 0, inputs |-> 0]
                             /\ c' = fresh
                             /\ Fatal(<<"LoadConfig">>)
                        ELSE /\ c' = [fresh EXCEPT !.loaded = TRUE,
                                                   !.Outputs = add.outputs,
                                                   !.Inputs = add.inputs]
                             /\ pc' = "legacydir"
                             /\ fatal' = fatal
       ELSE /\ out' = Append(Append(out, "Usage: Telegraf"), "defaults")
            /\ Return
            /\ UNCHANGED <<calls, c, fatal>>
    /\ UNCHANGED <<reload, cycles, inputFilters, outputFilters, ag>>
    /\ UNCHANGED logged
    /\ UNCHANGED mainVars

\* if dir != "" { err = c.LoadDirectory(dir); fatal on error }
LoadDirectory(at, dirFlag, next) ==
    /\ pc = at
    /\ IF flags[dirFlag] # ""
       THEN \E err \in BOOLEAN, add \in Loads :
              /\ calls' = Append(calls, <<"LoadDirectory", flags[dirFlag],
                                          Result(err)>>)
              /\ IF err
                 THEN /\ add = [outputs |-> 0, inputs |-> 0]
                      /\ c' = c
                      /\ Fatal(<<"LoadDirectory">>)
                 ELSE /\ c' = [c EXCEPT !.Outputs = @ + add.outputs,
                                        !.Inputs = @ + add.inputs]
                      /\ pc' = next
                      /\ fatal' = fatal
       ELSE /\ pc' = next
            /\ UNCHANGED <<calls, c, fatal>>
    /\ UNCHANGED <<reload, cycles, inputFilters, outputFilters, ag>>
    /\ UNCHANGED <<out, logged>>
    /\ UNCHANGED mainVars

LoadDirectoryLegacy_CurrentPath ==
    LoadDirectory("legacydir", "fConfigDirectory", "currentdir")

LoadDirectoryLegacy ==
    LoadDirectory("legacydir", "fConfigDirectoryLegacy", "currentdir")

LoadDirectoryCurrent ==
    LoadDirectory("currentdir", "fConfigDirectory", "validate")

\* Validate without the test of the inputs
Validate_OutputsOnly ==
    /\ pc = "validate"
    /\ IF c.Outputs = 0 THEN Fatal(<<"Error: no outputs found">>)
       ELSE /\ pc' = "agent"
            /\ fatal' = fatal
    /\ UNCHANGED startVars
    /\ UNCHANGED <<calls, out, logged>>
    /\ UNCHANGED mainVars

\* if len(c.Outputs) == 0 { fatal }; if len(c.Inputs) == 0 { fatal }
Validate ==
    /\ pc = "validate"
    /\ IF c.Outputs = 0 THEN Fatal(<<"Error: no outputs found">>)
       ELSE IF c.Inputs = 0 THEN Fatal(<<"Error: no inputs found">>)
       ELSE /\ pc' = "agent"
            /\ fatal' = fatal
    /\ UNCHANGED startVars
    /\ UNCHANGED <<calls, out, logged>>
    /\ UNCHANGED mainVars

\* ag, err := agent.NewAgent(c); fatal on error
NewAgentWith(checked) ==
    /\ pc = "agent"
    /\ \E err \in BOOLEAN :
         /\ calls' = Append(calls, <<"NewAgent", "", Result(err)>>)
         /\ IF err /\ checked
            THEN /\ Fatal(<<"NewAgent">>)
                 /\ ag' = ag
            ELSE /\ ag' = [NoAgent EXCEPT !.made = ~err]
                 /\ pc' = "overrides"
                 /\ fatal' = fatal
    /\ UNCHANGED <<reload, cycles, inputFilters, outputFilters, c>>
    /\ UNCHANGED <<out, logged>>
    /\ UNCHANGED mainVars

\* ag, _ := agent.NewAgent(c)
NewAgent_ErrorIgnored == NewAgentWith(FALSE)

\* ag, err := agent.NewAgent(c); if err != nil { log.Fatal(err) }
NewAgent == NewAgentWith(TRUE)

\* if *fDebug { ag.Config.Agent.Debug = true }
\* if *fQuiet { ag.Config.Agent.Quiet = true }
OverridesOf(quiet) ==
    /\ pc = "overrides"
    /\ ag' = [ag EXCEPT !.Debug = IF flags["fDebug"] THEN TRUE ELSE @,
                        !.Quiet = IF flags[quiet] THEN TRUE ELSE @]
    /\ pc' = "test"
    /\ UNCHANGED <<reload, cycles, inputFilters, outputFilters, c>>
    /\ UNCHANGED <<calls, out, logged, fatal>>
    /\ UNCHANGED mainVars

\* the quiet override reading -debug
Overrides_QuietFromDebug == OverridesOf("fDebug")

\* if *fDebug { ag.Config.Agent.Debug = true }
\* if *fQuiet { ag.Config.Agent.Quiet = true }
Overrides == OverridesOf("fQuiet")

\* if *fTest { err = ag.Test(); fatal on error; return }, going to `after`
\* once the pass has succeeded
TestModeThen(after) ==
    /\ pc = "test"
    /\ IF flags["fTest"]
       THEN \E err \in BOOLEAN :
              /\ calls' = Append(calls, <<"Test", "", Result(err)>>)
              /\ IF err
                 THEN Fatal(<<"Test">>)
                 ELSE /\ pc' = after
                      /\ fatal' = fatal
       ELSE /\ pc' = "connect"
            /\ UNCHANGED <<calls, fatal>>
    /\ UNCHANGED startVars
    /\ UNCHANGED <<out, logged>>
    /\ UNCHANGED mainVars

TestMode_NoReturn == TestModeThen("connect")

TestMode == TestModeThen("returned")

\* err = ag.Connect(); if err is set and `checked`, fatal; then the four
\* log.Printf lines
ConnectWith(checked) ==
    /\ pc = "connect"
    /\ \E err \in BOOLEAN :
         /\ calls' = Append(calls, <<"Connect", "", Result(err)>>)
         /\ IF err /\ checked
            THEN /\ Fatal(<<"Connect">>)
                 /\ UNCHANGED <<ag, logged>>
            ELSE /\ ag' = [ag EXCEPT !.connected = ~err]
                 /\ logged' = logged \o <<"Starting Telegraf", "Loaded outputs",
                                          "Loaded inputs", "Tags enabled">>
                 /\ pc' = "pidfile"
                 /\ fatal' = fatal
    /\ UNCHANGED <<reload, cycles, inputFilters, outputFilters, c>>
    /\ UNCHANGED out
    /\ UNCHANGED mainVars

Connect_ErrorIgnored == ConnectWith(FALSE)

Connect == ConnectWith(TRUE)

\* if *fPidfile != "" { f, err := os.Create(*fPidfile); fatal on error;
\*   fmt.Fprintf(f, "%d\n", os.Getpid()); f.Close() }
\* and the loop body ends
Pidfile ==
    /\ pc = "pidfile"
    /\ IF flags["fPidfile"] # ""
       THEN \E err \in BOOLEAN :
              LET create == <<"os.Create", flags["fPidfile"], Result(err)>>
                  write  == <<"Fprintf", flags["fPidfile"], "ok">>
                  close  == <<"Close", flags["fPidfile"], "ok">>
              IN  IF err
                  THEN /\ calls' = Append(calls, create)
                       /\ Fatal(<<"Unable to create pidfile">>)
                  ELSE /\ calls' = calls \o <<create, write, close>>
                       /\ pc' = "for"
                       /\ fatal' = fatal
       ELSE /\ pc' = "for"
            /\ UNCHANGED <<calls, fatal>>
    /\ UNCHANGED startVars
    /\ UNCHANGED <<out, logged>>
    /\ UNCHANGED mainVars

\* ---------------------------------------------------------- specifications
Next ==
    \/ Main
    \/ ServiceInstall
    \/ ServiceRemove
    \/ ServiceStart
    \/ ServiceStop
    \/ ServiceMode
    \/ RunAsService
    \/ StartReturned
    \/ Stop
    \/ Start
    \/ LoopCheck
    \/ LoopBody
    \/ ResolveFilters
    \/ CheckVersion
    \/ CheckSampleConfig
    \/ CheckUsage
    \/ LoadPrimary
    \/ LoadDirectoryLegacy
    \/ LoadDirectoryCurrent
    \/ Validate
    \/ NewAgent
    \/ Overrides
    \/ TestMode
    \/ Connect
    \/ Pidfile

Spec == Init /\ [][Next]_vars

\* The filter resolution alone, over every pair of raw values: the loop body
\* of a start() called from main has just parsed a command line that gives
\* the legacy and the current flag of one filter, with the raw values
\* legacy and current (either may be the empty string).
FilterPairs == {<<"fInputFiltersLegacy", "fInputFilters">>,
                <<"fOutputFiltersLegacy", "fOutputFilters">>}

InitFilter ==
    /\ pc = "filters"
    /\ \E pair \in FilterPairs :
         \E legacy \in StrUpTo(MaxLen), current \in StrUpTo(MaxLen) :
            flags = [f \in FlagVars |->
                        IF f = pair[1] THEN legacy
                        ELSE IF f = pair[2] THEN current
                        ELSE FlagDefault(f)]
    /\ nflag = 2
    /\ via = "direct"
    /\ reload = <<FALSE>>
    /\ cycles = 1
    /\ inputFilters = NilSlice
    /\ outputFilters = NilSlice
    /\ c = NoConfig
    /\ ag = NoAgent
    /\ calls = << <<"InServiceMode", "", "true">> >>
    /\ out = <<>>
    /\ logged = <<>>
    /\ fatal = <<>>
    /\ stops = 0
    /\ starts = 1

NextFilter == ResolveFilters

SpecFilter == InitFilter /\ [][NextFilter]_vars

\* ------------------------------------------------------------------ claims
\* the two flag pairs with the variable each resolves into
ResolvedPairs ==
    {[legacy |-> flags["fInputFiltersLegacy"],
      current |-> flags["fInputFilters"], resolved |-> inputFilters],
     [legacy |-> flags["fOutputFiltersLegacy"],
      current |-> flags["fOutputFilters"], resolved |-> outputFilters]}

\* C1 as stated: for both flag pairs and every pair of raw values (L, C),
\* the resolved filter is the parse of C if C is non-empty after trimming,
\* otherwise the parse of L (if that is non-empty after trimming), otherwise
\* empty.
C1_CurrentWinsIfNonEmptyAfterTrim ==
    pc = "version" =>
        \A p \in ResolvedPairs :
            p.resolved =
                IF TrimSpace(p.current) # <<>> THEN ParseFilter(p.current)
                ELSE IF TrimSpace(p.legacy) # <<>> THEN ParseFilter(p.legacy)
                ELSE NilSlice

\* C1 amended: for both flag pairs and every pair of raw values (L, C), the
\* resolved filter is the parse of C if C is non-empty as given (before any
\* trimming), otherwise the parse of L if L is non-empty as given, otherwise
\* empty; so a white-space-only C still wins over L.
C1_CurrentWinsIfSupplied ==
    pc = "version" =>
        \A p \in ResolvedPairs :
            p.resolved =
                IF p.current # <<>> THEN ParseFilter(p.current)
                ELSE IF p.legacy # <<>> THEN ParseFilter(p.legacy)
                ELSE NilSlice

\* C1 witness: a white-space-only current value beside a legacy value with a
\* name in it has been resolved, to three empty names
C1_WhitespaceCurrentResolved ==
    /\ pc = "version"
    /\ flags["fInputFilters"] = <<" ">>
    /\ flags["fInputFiltersLegacy"] = <<"m">>
    /\ inputFilters = << <<>>, <<>>, <<>> >>

\* how often the separator occurs in s
RECURSIVE CountSep(_, _)
CountSep(s, sep) ==
    IF s = <<>> THEN 0
    ELSE (IF Head(s) = sep THEN 1 ELSE 0) + CountSep(Tail(s), sep)

\* the names joined again with the separator
RECURSIVE Join(_, _)
Join(names, sep) ==
    IF names = <<>> THEN <<>>
    ELSE IF Len(names) = 1 THEN names[1]
    ELSE names[1] \o <<sep>> \o Join(Tail(names), sep)

\* the raw value that decides a pair: the current one when supplied
Supplied(p) == IF p.current # <<>> THEN p.current ELSE p.legacy

\* C2 as stated: a supplied filter string n1:...:nk resolves to exactly the
\* sequence [n1, ..., nk], with no additional elements; -input-filter=cpu
\* with -filter=mem resolves the input filter to ["cpu"].
C2_ExactlyTheNames ==
    pc = "version" =>
        /\ \A p \in ResolvedPairs :
              Supplied(p) # <<>> =>
                  /\ Len(p.resolved) = CountSep(TrimSpace(Supplied(p)), ":") + 1
                  /\ Join(p.resolved, ":") = TrimSpace(Supplied(p))
        /\ (flags["fInputFilters"] = <<"c">>
              /\ flags["fInputFiltersLegacy"] = <<"m">>)
              => inputFilters = << <<"c">> >>

\* C2 amended: a supplied filter string n1:...:nk (trimmed) resolves to the
\* ordered sequence ["", n1, ..., nk, ""]: the names in order, none holding a
\* separator, between one empty element at each end; -input-filter=cpu with
\* -filter=mem resolves the input filter to ["", "cpu", ""].
C2_NamesBetweenEmptyEnds ==
    pc = "version" =>
        /\ \A p \in ResolvedPairs :
              Supplied(p) # <<>> =>
                  LET t == TrimSpace(Supplied(p))
                      n == Len(p.resolved)
                  IN  /\ n = CountSep(t, ":") + 3
                      /\ p.resolved[1] = <<>>
                      /\ p.resolved[n] = <<>>
                      /\ \A i \in 1..n : CountSep(p.resolved[i], ":") = 0
                      /\ Join(SubSeq(p.resolved, 2, n - 1), ":") = t
        /\ (flags["fInputFilters"] = <<"c">>
              /\ flags["fInputFiltersLegacy"] = <<"m">>)
              => inputFilters = << <<>>, <<"c">>, <<>> >>

\* C2 witness: -input-filter=c:m has been resolved to its two names between
\* the two empty elements
C2_TwoNamesResolved ==
    /\ pc = "version"
    /\ flags["fInputFilters"] = <<"c", ":", "m">>
    /\ inputFilters = << <<>>, <<"c">>, <<"m">>, <<>> >>

\* the calls made to the functions `names`, in order
CallsTo(names) ==
    LET Is(call) == call[1] \in names
    IN  SelectSeq(calls, Is)

Called(name) == CallsTo({name}) # <<>>

\* the place of the first call to `name` in calls; 0 when there is none
FirstCall(name) ==
    IF Called(name)
    THEN CHOOSE i \in 1..Len(calls) :
            /\ calls[i][1] = name
            /\ \A j \in 1..(i - 1) : calls[j][1] # name
    ELSE 0

Printed(line) == \E i \in 1..Len(out) : out[i] = line

\* the first informational request that holds, in the order version,
\* sample-config, usage, no-config; "none" when a configuration is to be loaded
InfoRequest ==
    IF flags["fVersion"] THEN "version"
    ELSE IF flags["fSampleConfig"] THEN "sample-config"
    ELSE IF flags["fUsage"] # "" THEN "usage"
    ELSE IF flags["fConfig"] = "" THEN "no-config"
    ELSE "none"

\* how many of the four requests hold
InfoRequests ==
    Cardinality({r \in {"version", "sample-config", "usage", "no-config"} :
        \/ r = "version" /\ flags["fVersion"]
        \/ r = "sample-config" /\ flags["fSampleConfig"]
        \/ r = "usage" /\ flags["fUsage"] # ""
        \/ r = "no-config" /\ flags["fConfig"] = ""})

\* the requests handled so far, by what each handler prints or calls
Handled ==
    {r \in {"version", "sample-config", "usage", "no-config"} :
        \/ r = "version" /\ Printed("Telegraf - Version")
        \/ r = "sample-config" /\ Called("PrintSampleConfig")
        \/ r = "usage" /\ Called("PrintInputConfig")
        \/ r = "no-config" /\ Printed("Usage: Telegraf")}

\* the cycle is past the informational checks and the test of -config
InfoDecided ==
    /\ cycles > 0
    /\ pc \notin {"body", "filters", "version", "sample", "usage", "config"}

\* the cycle has ended: start() returned or the process ended
CycleEnded == pc \in {"returned", "exited", "halted"}

ConfigUntouched ==
    /\ c = NoConfig
    /\ ~Called("NewConfig")
    /\ ~Called("LoadConfig")
    /\ ~Called("LoadDirectory")

\* C3: within one cycle at most one informational request is handled; once
\* the checks are over, the one handled is the first that holds in the order
\* version, sample-config, usage, no-config (none if none holds), and a
\* handled request has ended the cycle with no configuration constructed or
\* loaded and no agent built.
C3_FirstRequestWins ==
    /\ Cardinality(Handled) <= 1
    /\ InfoDecided =>
          Handled = (IF InfoRequest = "none" THEN {} ELSE {InfoRequest})
    /\ Handled # {} =>
          /\ Handled = {InfoRequest}
          /\ CycleEnded
          /\ ConfigUntouched
          /\ ag = NoAgent
          /\ ~Called("NewAgent")

\* C3 witness: all four requests hold at once and the cycle has ended with
\* only the version handled
C3_AllFourVersionHandled ==
    /\ InfoRequests = 4
    /\ pc = "returned"
    /\ Handled = {"version"}

\* the command line was -version and nothing else
OnlyVersion == nflag = 1 /\ flags["fVersion"]

\* C4 as stated: a process invoked with only -version prints the version
\* string and terminates on every execution path from main, whatever the
\* service-mode check and run-as-service return, and never constructs or
\* loads a configuration.
C4_VersionOnEveryPath ==
    OnlyVersion =>
        /\ pc \notin Terminal => ENABLED Next
        /\ pc \in Terminal => out = <<"Telegraf - Version">>
        /\ ConfigUntouched

\* C4 amended: a process invoked with only -version prints the version
\* string, once and nothing else, and terminates on every execution path
\* that enters the reload loop (start() called by main in service mode, or
\* run as the start callback by the service manager); when run-as-service
\* returns an error without running the start callback the process halts on
\* the svc.Run fatal error with nothing printed.  On no path is a
\* configuration constructed or loaded.
C4_VersionWhenLoopEntered ==
    OnlyVersion =>
        /\ pc \notin Terminal => ENABLED Next
        /\ pc \in Terminal =>
              IF cycles > 0
              THEN out = <<"Telegraf - Version">>
              ELSE /\ out = <<>>
                   /\ pc = "halted"
                   /\ fatal = <<"svc.Run">>
                   /\ calls[Len(calls)] = <<"RunAsService",
                                            flags["fServiceName"], "err">>
        /\ ConfigUntouched

\* C4 witness: -version alone, start() run by the service manager, the
\* version printed and the process ended
C4_VersionPrintedAsService ==
    /\ OnlyVersion
    /\ via = "service"
    /\ pc = "exited"
    /\ out = <<"Telegraf - Version">>

\* the directories merged so far, in order: the argument of every
\* LoadDirectory call that returned no error
Merged ==
    LET Ok(call) == call[1] = "LoadDirectory" /\ call[3] = "ok"
        done == SelectSeq(calls, Ok)
    IN  [i \in 1..Len(done) |-> done[i][2]]

\* the directories the flags ask for: the legacy one, then the current one
DirectoriesSet ==
    (IF flags["fConfigDirectoryLegacy"] # ""
     THEN <<flags["fConfigDirectoryLegacy"]>> ELSE <<>>)
    \o (IF flags["fConfigDirectory"] # ""
        THEN <<flags["fConfigDirectory"]>> ELSE <<>>)

IsPrefix(s, t) == Len(s) <= Len(t) /\ s = SubSeq(t, 1, Len(s))

\* the primary file is loaded and both directory steps are behind, none failed
MergesDone ==
    /\ c.loaded
    /\ pc \notin {"legacydir", "currentdir"}
    /\ fatal # <<"LoadDirectory">>

\* C5: a directory is merged only after the primary file has loaded without
\* error; the directories are merged in the order legacy, current, each at
\* most once and only if its flag is set; and once the cycle is past both
\* directory steps the merged directories are exactly the ones set: both,
\* legacy first, when both are set, and the one set when only one is.
C5_LegacyThenCurrent ==
    /\ Len(CallsTo({"LoadDirectory"})) - Len(Merged) \in {0, 1}
    /\ IsPrefix(Merged, DirectoriesSet)
    /\ Called("LoadDirectory") =>
          /\ c.loaded
          /\ calls[FirstCall("LoadConfig")][3] = "ok"
          /\ FirstCall("LoadConfig") < FirstCall("LoadDirectory")
    /\ MergesDone => Merged = DirectoriesSet

\* C5 witness: both directory flags set and both merged, legacy first
C5_BothMerged ==
    /\ pc = "validate"
    /\ flags["fConfigDirectoryLegacy"] # ""
    /\ flags["fConfigDirectory"] # ""
    /\ Merged = <<flags["fConfigDirectoryLegacy"], flags["fConfigDirectory"]>>

\* the steps that follow validation
LaunchCalls == {"NewAgent", "Test", "Connect", "os.Create", "Fprintf"}

\* C6: whenever the configuration has zero outputs or zero inputs after the
\* primary load and all directory merges, the cycle is at the validation or
\* has halted there on the validation error, and NewAgent, Test, Connect and
\* the pidfile creation and write have not been attempted.
C6_ValidationBeforeLaunch ==
    (MergesDone /\ (c.Outputs = 0 \/ c.Inputs = 0)) =>
        /\ pc \in {"validate", "halted"}
        /\ pc = "halted" =>
              fatal = (IF c.Outputs = 0 THEN <<"Error: no outputs found">>
                                        ELSE <<"Error: no inputs found">>)
        /\ CallsTo(LaunchCalls) = <<>>
        /\ ag = NoAgent

\* C6 witness: a directory merge added outputs but the configuration still
\* has no inputs, and the cycle has halted on the validation error
C6_NoInputsAfterMerge ==
    /\ pc = "halted"
    /\ fatal = <<"Error: no inputs found">>
    /\ Merged # <<>>
    /\ c.Outputs > 0
    /\ c.Inputs = 0

\* the pidfile steps taken so far
PidfileCalls == CallsTo({"os.Create", "Fprintf", "Close"})

\* C7: when -test is set no pidfile is created or written, whether or not a
\* pidfile path is supplied and whether the test pass succeeds or fails.
C7_NoPidfileInTestMode ==
    flags["fTest"] => PidfileCalls = <<>>

\* C7 witness: -test with a pidfile path, the test pass done and the cycle
\* over
C7_TestPassWithPidfilePath ==
    /\ flags["fTest"]
    /\ flags["fPidfile"] # ""
    /\ Called("Test")
    /\ pc = "returned"

\* the messages of the failures of the steps before the pidfile write
StepFailures ==
    {<<"LoadConfig">>, <<"LoadDirectory">>, <<"Error: no outputs found">>,
     <<"Error: no inputs found">>, <<"NewAgent">>, <<"Test">>, <<"Connect">>,
     <<"Unable to create pidfile">>}

\* a run-mode launch has succeeded: the body of the loop ran to its end
Launched ==
    /\ ag.made
    /\ ~flags["fTest"]
    /\ Called("Connect")
    /\ pc \notin {"connect", "pidfile"}
    /\ fatal \notin StepFailures

\* C8: the pidfile is written at most once, and only with a pidfile path
\* configured; a write comes after the validation has succeeded, the agent
\* is constructed and Connect has returned without error; there is no write
\* in an execution where a step failed; and a successful run-mode launch
\* with a pidfile path configured has written it exactly once.
C8_PidfileWrittenOnce ==
    LET writes == Len(CallsTo({"Fprintf"}))
    IN  /\ writes <= 1
        /\ writes = 1 =>
              /\ flags["fPidfile"] # ""
              /\ c.Outputs > 0 /\ c.Inputs > 0
              /\ ag.made /\ ag.connected
              /\ calls[FirstCall("Connect")][3] = "ok"
              /\ FirstCall("NewAgent") < FirstCall("Connect")
              /\ FirstCall("Connect") < FirstCall("os.Create")
              /\ FirstCall("os.Create") < FirstCall("Fprintf")
        /\ fatal \in StepFailures => writes = 0
        /\ Launched => writes = (IF flags["fPidfile"] # "" THEN 1 ELSE 0)

\* C8 witness: a run-mode launch with a pidfile path has succeeded, the
\* pidfile is written and the process has ended
C8_LaunchedWithPidfile ==
    /\ Launched
    /\ pc = "exited"
    /\ PidfileCalls = << <<"os.Create", flags["fPidfile"], "ok">>,
                         <<"Fprintf", flags["fPidfile"], "ok">>,
                         <<"Close", flags["fPidfile"], "ok">> >>

\* the usage request is the one the cycle handles
UsageHandled ==
    /\ InfoRequest = "usage"
    /\ cycles > 0
    /\ CycleEnded

\* C9: for -usage X the input lookup is made first; if it succeeds the
\* output lookup is not made and the input usage is printed with no fatal
\* error; if it fails the output lookup is made; only when both fail is one
\* fatal error reported, holding both messages; when the output lookup
\* succeeds the output usage is printed with no fatal error of the cycle.
C9_UsageFallback ==
    UsageHandled =>
        LET lookups == CallsTo({"PrintInputConfig", "PrintOutputConfig"})
            usage   == flags["fUsage"]
            cycleFatal == pc = "halted" /\ fatal # <<"svc.Run">>
        IN  /\ Len(lookups) \in {1, 2}
            /\ lookups[1][1] = "PrintInputConfig" /\ lookups[1][2] = usage
            /\ lookups[1][3] = "ok" =>
                  /\ Len(lookups) = 1
                  /\ out = <<"input usage">>
                  /\ ~cycleFatal
            /\ lookups[1][3] = "err" =>
                  /\ Len(lookups) = 2
                  /\ lookups[2][1] = "PrintOutputConfig"
                  /\ lookups[2][2] = usage
                  /\ lookups[2][3] = "ok" =>
                        out = <<"output usage">> /\ ~cycleFatal
                  /\ lookups[2][3] = "err" =>
                        /\ out = <<>>
                        /\ pc = "halted"
                        /\ fatal = <<"input lookup failed",
                                     "output lookup failed">>

\* C9 witness: both lookups failed and the process halted on the one fatal
\* error with both messages
C9_BothLookupsFailed ==
    /\ UsageHandled
    /\ CallsTo({"PrintInputConfig", "PrintOutputConfig"}) =
          << <<"PrintInputConfig", flags["fUsage"], "err">>,
             <<"PrintOutputConfig", flags["fUsage"], "err">> >>
    /\ fatal = <<"input lookup failed", "output lookup failed">>

\* C10: in every execution of the reload loop the body of the loop (the
\* sequence from argument resolution to the launch) is entered at most
\* once: no step of it is taken twice, and once a cycle has run the channel
\* holds no true, so the next receive ends the loop.
C10_AtMostOneCycle ==
    /\ cycles <= 1
    /\ pc = "body" => cycles = 0
    /\ cycles = 1 => \A i \in 1..Len(reload) : reload[i] = FALSE
    /\ \A name \in LaunchCalls \cup {"NewConfig", "LoadConfig",
                                     "PrintSampleConfig", "PrintInputConfig"} :
          Len(CallsTo({name})) <= 1

\* C10 witness: a run-mode cycle ran to its end, the loop has ended and
\* start() has returned after that single cycle
C10_LoopEndedAfterOneCycle ==
    /\ pc = "returned"
    /\ cycles = 1
    /\ ag.connected
    /\ reload = <<>>

\* ------------------------------------------------ administrative commands
AdminFlags ==
    <<"fServiceInstall", "fServiceUninstall", "fServiceStart", "fServiceStop">>

AdminCallOf ==
    [fServiceInstall |-> "InstallService", fServiceUninstall |-> "RemoveService",
     fServiceStart |-> "StartService", fServiceStop |-> "StopService"]

AdminFailureOf ==
    [InstallService |-> <<"installService">>,
     RemoveService |-> <<"removeService">>,
     StartService |-> <<"startService">>,
     StopService |-> <<"stopService">>]

AnyAdmin == \E i \in 1..Len(AdminFlags) : flags[AdminFlags[i]]

AdminCalls ==
    CallsTo({"InstallService", "RemoveService", "StartService", "StopService"})

\* the first administrative flag set, in the order main tests them
FirstAdmin ==
    AdminFlags[CHOOSE i \in 1..Len(AdminFlags) :
                  /\ flags[AdminFlags[i]]
                  /\ \A j \in 1..(i - 1) : ~flags[AdminFlags[j]]]

\* C11: when any of -service-install, -service-remove, -service-start,
\* -service-stop is set, main only walks the administrative tests and ends:
\* winsvc.InServiceMode and RunAsService are never called, start() is never
\* entered, no informational request is handled and no configuration is
\* loaded, whatever other flags are set; once the process has ended it has
\* made exactly one administrative call, printed Done and returned on
\* success, or halted with that command's error.
C11_AdminCommandTerminal ==
    AnyAdmin =>
        /\ pc \in {"install", "remove", "svcstart", "svcstop"} \cup Terminal
        /\ ~Called("InServiceMode")
        /\ ~Called("RunAsService")
        /\ via = "none"
        /\ starts = 0
        /\ cycles = 0
        /\ reload = <<>>
        /\ Handled = {}
        /\ ConfigUntouched
        /\ logged = <<>>
        /\ pc \in Terminal =>
              /\ Len(AdminCalls) = 1
              /\ calls = AdminCalls
              /\ \/ /\ pc = "exited"
                    /\ calls[1][3] = "ok"
                    /\ out = <<"Done">>
                    /\ fatal = <<>>
                 \/ /\ pc = "halted"
                    /\ calls[1][3] = "err"
                    /\ out = <<>>
                    /\ fatal = AdminFailureOf[calls[1][1]]

\* -service-stop given with -version and -config: the command was issued
\* and the process ended
C11_AdminWithOtherFlags ==
    /\ flags["fServiceStop"]
    /\ flags["fVersion"]
    /\ flags["fConfig"] # ""
    /\ pc = "exited"
    /\ out = <<"Done">>

\* C12: a process started with no flags prints the usage text and exits
\* with status 0 (no fatal error), without any call to the service manager
\* or to any other collaborator, without entering start() and without
\* touching a configuration.
C12_NoFlagsUsageExit ==
    (nflag = 0 /\ pc # "main") =>
        /\ pc = "exited"
        /\ out = <<"usage">>
        /\ fatal = <<>>
        /\ calls = <<>>
        /\ logged = <<>>
        /\ via = "none"
        /\ starts = 0
        /\ cycles = 0
        /\ reload = <<>>
        /\ ConfigUntouched

\* the process was started with no flags and has ended
C12_NoFlagsExited ==
    /\ nflag = 0
    /\ pc = "exited"
    /\ Printed("usage")

\* ------------------------------------------------------ bootstrap failures
FatalSteps ==
    {"LoadConfig", "LoadDirectory", "NewAgent", "Test", "Connect", "os.Create"}

FailureOf(step) ==
    IF step = "os.Create" THEN <<"Unable to create pidfile">> ELSE <<step>>

ValidationFailures ==
    {<<"Error: no outputs found">>, <<"Error: no inputs found">>}

\* C13: a failed bootstrap or launch step (primary load, legacy or current
\* directory merge, validation, NewAgent, Test, Connect, pidfile creation)
\* halts the process at that step: the failed call is the last call ever
\* made and the fatal message is that step's; after a failed validation no
\* launch step is called; and no step is called a second time (LoadDirectory
\* once per directory).
C13_FailureHaltsAtStep ==
    /\ \A i \in 1..Len(calls) :
          (calls[i][1] \in FatalSteps /\ calls[i][3] = "err") =>
              /\ i = Len(calls)
              /\ pc = "halted"
              /\ fatal = FailureOf(calls[i][1])
    /\ fatal \in StepFailures => pc = "halted"
    /\ fatal \in ValidationFailures => CallsTo(LaunchCalls) = <<>>
    /\ \A step \in FatalSteps \ {"LoadDirectory"} : Len(CallsTo({step})) <= 1
    /\ Len(CallsTo({"LoadDirectory"})) <= 2
    /\ Len(CallsTo({"LoadDirectory"})) = 2 =>
          /\ CallsTo({"LoadDirectory"})[1][2] = flags["fConfigDirectoryLegacy"]
          /\ CallsTo({"LoadDirectory"})[2][2] = flags["fConfigDirectory"]

\* both directories were given and the merge of the legacy one failed: the
\* current one was never merged
C13_LegacyMergeFailed ==
    /\ flags["fConfigDirectoryLegacy"] # ""
    /\ flags["fConfigDirectory"] # ""
    /\ pc = "halted"
    /\ fatal = <<"LoadDirectory">>
    /\ Len(CallsTo({"LoadDirectory"})) = 1

C15_LaunchRunsEngine == Launched => Called("Run")

\* ------------------------------------------------------- the reload token
BodySteps ==
    {"filters", "version", "sample", "usage", "config", "legacydir",
     "currentdir", "validate", "agent", "overrides", "test", "connect",
     "pidfile"}

\* C16: the channel holds true only between the priming send of start()
\* and the first loop test, and start() is entered at most once; during
\* every step of the body it holds the false sent at the head of the body;
\* a cycle that comes back to the loop test is a completed run-mode launch
\* with false in the channel, and the next step of the loop takes it and
\* returns from start().
C16_TokenArmedOnce ==
    /\ []((\E i \in 1..Len(reload) : reload[i]) =>
             (pc = "for" /\ cycles = 0 /\ starts = 1))
    /\ [](starts <= 1)
    /\ [](pc \in BodySteps => reload = <<FALSE>>)
    /\ []((pc = "for" /\ cycles > 0) =>
             (cycles = 1 /\ reload = <<FALSE>> /\ Launched))
    /\ [][(pc = "for" /\ cycles > 0 /\ pc' # pc) =>
             (pc' = "returned" /\ reload' = <<>>)]_vars

\* start() has returned after a run-mode launch that wrote the pidfile
C16_ReturnedAfterLaunch ==
    /\ pc = "returned"
    /\ Launched
    /\ Called("os.Create")
    /\ reload = <<>>

\* C17: with -test set, Connect is never called and Test is called at most
\* once; it is called once the engine is constructed and the overrides are
\* applied (-debug and -quiet are in force in the engine's configuration);
\* with the call the cycle has ended, by a return on success and by the
\* fatal error of Test on failure.
C17_TestModeSinglePass ==
    flags["fTest"] =>
        /\ ~Called("Connect")
        /\ ~ag.connected
        /\ Len(CallsTo({"Test"})) <= 1
        /\ (ag.made /\ pc \notin {"overrides", "test"}) => Called("Test")
        /\ Called("Test") =>
              /\ ag.made
              /\ FirstCall("NewAgent") < FirstCall("Test")
              /\ flags["fDebug"] => ag.Debug
              /\ flags["fQuiet"] => ag.Quiet
              /\ calls[Len(calls)][1] = "Test"
              /\ CycleEnded
              /\ IF calls[Len(calls)][3] = "err"
                 THEN pc = "halted" /\ fatal = <<"Test">>
                 ELSE fatal \notin StepFailures

\* a quiet test pass succeeded and the process ended
C17_QuietTestPassed ==
    /\ flags["fTest"]
    /\ flags["fQuiet"]
    /\ Called("Test")
    /\ fatal = <<>>
    /\ pc = "exited"

\* ------------------------------------------------------ service hand-off
\* C18: with no administrative flag set, once main has asked
\* winsvc.InServiceMode (exactly once): if the answer is false, main calls
\* RunAsService exactly once and never calls start() itself, and a
\* RunAsService error is fatal before start() was ever entered; if the
\* answer is true, main calls start() itself, exactly once, and never calls
\* RunAsService.
C18_HandOffExclusive ==
    (~AnyAdmin /\ nflag > 0 /\ pc \notin {"main", "install", "remove",
                                          "svcstart", "svcstop", "mode"}) =>
        LET mode == CallsTo({"InServiceMode"})
            run  == CallsTo({"RunAsService"})
        IN  /\ Len(mode) = 1
            /\ mode[1][3] = "false" =>
                  /\ via # "direct"
                  /\ Len(run) = IF pc = "RunAsService" THEN 0 ELSE 1
                  /\ starts = IF via = "service" /\ pc # "start" THEN 1 ELSE 0
                  /\ (run # <<>> /\ run[1][3] = "err") =>
                        /\ pc = "halted"
                        /\ fatal = <<"svc.Run">>
                        /\ via = "none"
            /\ mode[1][3] = "true" =>
                  /\ via = "direct"
                  /\ run = <<>>
                  /\ starts = IF pc = "start" THEN 0 ELSE 1

\* not in service mode: RunAsService ran start() and came back, main returned
C18_ServiceHandOffDone ==
    /\ Called("InServiceMode")
    /\ CallsTo({"RunAsService"}) = << <<"RunAsService", flags["fServiceName"],
                                       "start">> >>
    /\ via = "service"
    /\ starts = 1
    /\ pc = "exited"

\* C19: the reload channel never holds more than its one slot; at both
\* sends (the priming send of start() and the send at the head of the body)
\* the channel is empty, and at the loop test it holds a value, so neither
\* a send nor the receive of start()'s thread ever waits.
C19_TokenSlotNeverOverflows ==
    /\ Len(reload) <= ReloadCap
    /\ pc \in {"start", "body"} => reload = <<>>
    /\ pc = "for" => Len(reload) = 1

\* the send at the head of the body has put false in the emptied channel
C19_DisarmingSendDone ==
    /\ pc = "filters"
    /\ reload = <<FALSE>>
    /\ cycles = 1

\* C20: with several administrative flags set, at most one service-manager
\* command is ever issued, exactly one once the process has ended, and it is
\* the command of the first set flag in the order install, remove, start,
\* stop.
C20_AdminPrecedence ==
    AnyAdmin =>
        /\ Len(AdminCalls) <= 1
        /\ AdminCalls # <<>> => AdminCalls[1][1] = AdminCallOf[FirstAdmin]
        /\ pc \in Terminal => Len(AdminCalls) = 1

\* -service-remove, -service-start and -service-stop together: only
\* RemoveService was called
C20_RemoveBeforeStartAndStop ==
    /\ flags["fServiceUninstall"]
    /\ flags["fServiceStart"]
    /\ flags["fServiceStop"]
    /\ pc \in Terminal
    /\ Len(calls) = 1
    /\ calls[1][1] = "RemoveService"

=============================================================================
